---- MODULE Spec2Model ----
(***************************************************************************)
(* Graph unfolding (unfolding_final.py: explicit-label policy,             *)
(* unfolding_final_1.py: constraint-flag policy).                          *)
(*                                                                         *)
(* Strings that the code takes apart (node identifiers, label values) are  *)
(* sequences of one-character strings, so that split, join, strip,         *)
(* replace, isdigit, int() and the f-string naming are computed.           *)
(* Attribute values the code only copies or compares whole (constraint,    *)
(* color, style) are plain strings.                                        *)
(***************************************************************************)
EXTENDS Integers, Sequences, FiniteSets, TLC

\* Largest unfolding factor tried, and largest number of input edges.
MaxK == 3
MaxEdges == 2

VARIABLES
    variant,      \* 0: unfolding_final.py, 1: unfolding_final_1.py
    k,            \* the unfolding factor handed to process_unfolding
    env,          \* the input path: "missing", "malformed" or "ok"
    outdir,       \* whether the output directory exists
    outfile,      \* the output file: "absent", "old", "open", "nodes", "written"
    pc,           \* position in process_unfolding / unfold_graph
    err,          \* the exception that ended the run, "none" otherwise
    original,     \* the graph read_dot returned: [nodes, edges]
    constraint_edges, \* set of (u, v) pairs (unfolding_final_1.py)
    unfolded,     \* the DiGraph under construction: [nodes, edges]
    cycle,        \* outer loop variable of the running loop
    idx           \* position of the inner edge loop in original.edges

vars == <<variant, k, env, outdir, outfile, pc, err, original,
          constraint_edges, unfolded, cycle, idx>>

----------------------------------------------------------------------------
\* Python string primitives

DigitChars == <<"0", "1", "2", "3", "4", "5", "6", "7", "8", "9">>

DigitChar(d) == DigitChars[d + 1]

DigitVal(ch) == CHOOSE d \in 0..9 : DigitChars[d + 1] = ch

IsDigitChar(ch) == \E d \in 0..9 : DigitChars[d + 1] = ch

\* str.isdigit(): non-empty and every character a digit
IsDigit(s) == Len(s) > 0 /\ \A i \in 1..Len(s) : IsDigitChar(s[i])

\* str.split('_')
RECURSIVE Split(_)
Split(s) ==
    IF Len(s) = 0 THEN << <<>> >>
    ELSE LET rest == Split(Tail(s))
         IN  IF Head(s) = "_"
             THEN << <<>> >> \o rest
             ELSE << <<Head(s)>> \o Head(rest) >> \o Tail(rest)

\* '_'.join(parts)
RECURSIVE Join(_)
Join(parts) ==
    IF Len(parts) = 0 THEN <<>>
    ELSE IF Len(parts) = 1 THEN parts[1]
    ELSE parts[1] \o <<"_">> \o Join(Tail(parts))

\* str(n) for an int n >= 0, as the f-strings format the cycle
RECURSIVE Str(_)
Str(n) ==
    IF n < 10 THEN <<DigitChar(n)>>
    ELSE Str(n \div 10) \o <<DigitChar(n % 10)>>

\* s.strip(ch)
RECURSIVE LStrip(_, _)
LStrip(s, ch) ==
    IF Len(s) > 0 /\ Head(s) = ch THEN LStrip(Tail(s), ch) ELSE s

RECURSIVE RStrip(_, _)
RStrip(s, ch) ==
    IF Len(s) > 0 /\ s[Len(s)] = ch
    THEN RStrip(SubSeq(s, 1, Len(s) - 1), ch) ELSE s

Strip(s, ch) == RStrip(LStrip(s, ch), ch)

\* s.replace('"', '')
RemoveQuotes(s) == SelectSeq(s, LAMBDA ch : ch # "\"")

RECURSIVE DigitsVal(_)
DigitsVal(s) ==
    IF Len(s) = 0 THEN 0
    ELSE DigitsVal(SubSeq(s, 1, Len(s) - 1)) * 10 + DigitVal(s[Len(s)])

\* int(s): surrounding blanks ignored, an optional sign, then digits;
\* anything else is a ValueError (ok = FALSE).
ParseInt(s) ==
    LET t    == Strip(s, " ")
        sign == Len(t) > 0 /\ t[1] \in {"+", "-"}
        body == IF sign THEN Tail(t) ELSE t
    IN  IF IsDigit(body)
        THEN [ok |-> TRUE,
              val |-> IF sign /\ t[1] = "-" THEN 0 - DigitsVal(body)
                      ELSE DigitsVal(body)]
        ELSE [ok |-> FALSE, val |-> 0]

----------------------------------------------------------------------------
\* Attribute maps (Python dicts with string keys)

EmptyAttrs == [a \in {} |-> <<>>]

Has(data, a) == a \in DOMAIN data

Restrict(data, keys) == [a \in (DOMAIN data) \cap keys |-> data[a]]

Without(data, keys) == [a \in (DOMAIN data) \ keys |-> data[a]]

\* dict.update: the entries of new win
Update(old, new) == new @@ old

----------------------------------------------------------------------------
\* Inputs

Q == "\""

\* Values of k a caller can pass: ints, floats (num/2) and a non-numeric
\* object (a str), which the annotation k: int does not exclude.
KInt(n) == [type |-> "int", num |-> n, den |-> 1]

KFloat(halves) == [type |-> "float", num |-> halves, den |-> 2]

KStr == [type |-> "str", num |-> 0, den |-> 1]

KValues ==
    {KInt(n) : n \in -1..MaxK} \cup {KFloat(h) : h \in {1, 3, 4}} \cup {KStr}

\* k is an int >= 1
ValidK(kv) == kv.type = "int" /\ kv.num >= 1

\* Node identifiers
N_a == <<"a">>

N_a0 == <<"a", "_", "0">>

N_a1 == <<"a", "_", "1">>

N_a01 == <<"a", "_", "0", "_", "1">>

N_b == <<"b">>

N_bx == <<"b", "_", "x">>

N_c7 == <<"c", "_", "7">>

Edge(u, v, data) == [u |-> u, v |-> v, data |-> data]

\* Edges a DOT file can hold; read_dot keeps parallel edges apart
\* (it builds a multigraph), each with its own attribute map.
EdgePool ==
    { Edge(N_a, N_b, EmptyAttrs),
      Edge(N_a0, N_b, [label |-> <<"3">>]),
      Edge(N_a1, N_b, [label |-> <<Q, "1", Q>>, color |-> "red",
                       style |-> "dashed"]),
      Edge(N_a, N_b, [constraint |-> "false"]),
      Edge(N_b, N_a01, [constraint |-> "false", color |-> "red",
                        label |-> <<Q, "2", Q>>]),
      Edge(N_a, N_b, [label |-> <<Q, "a", "b", "c", Q>>]),
      Edge(N_b, N_a, [label |-> <<Q, "-", "2", Q>>]),
      Edge(N_bx, N_a, [constraint |-> "true", color |-> "blue"]) }

EdgeSeqs == UNION {[1..n -> EdgePool] : n \in 0..MaxEdges}

Endpoints(es) == {es[i].u : i \in 1..Len(es)} \cup {es[i].v : i \in 1..Len(es)}

\* The graphs read_dot can return: the edges' endpoints are nodes, and a
\* node statement can add a node no edge touches.
Graphs ==
    {[nodes |-> Endpoints(es) \cup iso, edges |-> es] :
        es \in EdgeSeqs, iso \in {{}, {N_c7}}}

NoEdges == [p \in {} |-> EmptyAttrs]

EmptyGraph == [nodes |-> {}, edges |-> NoEdges]

Init ==
    /\ variant \in {0, 1}
    /\ k \in KValues
    /\ env \in {"missing", "malformed", "ok"}
    /\ outdir \in BOOLEAN
    /\ outfile \in IF outdir THEN {"absent", "old"} ELSE {"absent"}
    /\ pc = "start"
    /\ err = "none"
    /\ original = [nodes |-> {}, edges |-> <<>>]
    /\ constraint_edges = {}
    /\ unfolded = EmptyGraph
    /\ cycle = 0
    /\ idx = 1

----------------------------------------------------------------------------
\* unfold_graph

\* k < 1 or not isinstance(k, int): the comparison is evaluated first, and
\* Python raises TypeError when k is not comparable with an int.
KCheck(kv) ==
    IF kv.type = "str" THEN "TypeError"
    ELSE IF kv.num < kv.den \/ kv.type # "int" THEN "ValueError_k"
    ELSE "ok"

\* range(k) for an accepted k
K == k.num

\* f"{base}_{cycle}"
Name(base, c) == base \o <<"_">> \o Str(c)

\* unfolding_final.py, node loop: strip a trailing all-digit part
NodeBase0(node) ==
    LET parts == Split(node)
    IN  IF Len(parts) > 1 /\ IsDigit(parts[Len(parts)])
        THEN Join(SubSeq(parts, 1, Len(parts) - 1))
        ELSE node

\* A mutant of EdgeBase0: the last part is dropped without the isdigit test.
EdgeBase0_AnySuffix(node) ==
    IF Len(Split(node)) > 1
    THEN Join(SubSeq(Split(node), 1, Len(Split(node)) - 1))
    ELSE node

\* unfolding_final.py, edge loop: the same rule, written out a second time
EdgeBase0(node) ==
    IF Len(Split(node)) > 1 /\ IsDigit(Split(node)[Len(Split(node))])
    THEN Join(SubSeq(Split(node), 1, Len(Split(node)) - 1))
    ELSE node

\* unfolding_final_1.py: everything before the first underscore
extract_base(node) == Split(node)[1]

\* networkx DiGraph.add_edge: missing endpoints become nodes; an edge that
\* exists already keeps its attributes and is updated with the new ones.
AddEdge(g, src, dst, attrs) ==
    LET p == <<src, dst>>
    IN  [nodes |-> g.nodes \cup {src, dst},
         edges |-> IF p \in DOMAIN g.edges
                   THEN [g.edges EXCEPT ![p] = Update(@, attrs)]
                   ELSE (p :> attrs) @@ g.edges]

Fail(e) ==
    /\ err' = e
    /\ pc' = "failed"

UnfoldCheckK ==
    /\ pc = "unfold"
    /\ IF KCheck(k) = "ok"
       THEN /\ pc' = IF variant = 1 THEN "detect" ELSE "nodes"
            /\ err' = err
       ELSE Fail(KCheck(k))
    /\ UNCHANGED <<variant, k, env, outdir, outfile, original,
                   constraint_edges, unfolded, cycle, idx>>

\* data.get('constraint') == 'false'
IsFalseConstraint(data) == Has(data, "constraint") /\ data["constraint"] = "false"

DetectConstraintEdges ==
    /\ pc = "detect"
    /\ constraint_edges' =
           {<<original.edges[i].u, original.edges[i].v>> :
               i \in {j \in 1..Len(original.edges) :
                         IsFalseConstraint(original.edges[j].data)}}
    /\ pc' = "nodes"
    /\ UNCHANGED <<variant, k, env, outdir, outfile, err, original,
                   unfolded, cycle, idx>>

NodeBase(node) == IF variant = 0 THEN NodeBase0(node) ELSE extract_base(node)

\* One pass of the outer node loop: a node per input node for this cycle.
CreateNodes ==
    /\ pc = "nodes"
    /\ cycle < K
    /\ unfolded' = [unfolded EXCEPT !.nodes =
                       @ \cup {Name(NodeBase(n), cycle) : n \in original.nodes}]
    /\ IF cycle + 1 < K
       THEN /\ cycle' = cycle + 1
            /\ pc' = pc
       ELSE /\ cycle' = 0
            /\ pc' = "edges"
    /\ idx' = 1
    /\ UNCHANGED <<variant, k, env, outdir, outfile, err, original,
                   constraint_edges>>

\* Advance the nested loops "for cycle in range(k): for edge in edges".
NextEdge ==
    IF idx < Len(original.edges)
    THEN /\ idx' = idx + 1
         /\ cycle' = cycle
    ELSE /\ idx' = 1
         /\ cycle' = cycle + 1

\* A mutant of DstCycle: the destination cycle is not wrapped.
DstCycle_NoWrap(c, delta, kk) == c + delta

\* (cycle + delta) % k
DstCycle(c, delta, kk) == (c + delta) % kk

\* unfolding_final.py: new_data starts empty and receives label,
\* constraint and color when the input edge has them.
NewDataLabel(data) ==
    Update(Restrict(data, {"label"}), Restrict(data, {"constraint", "color"}))

\* A mutant of LabelError: the test "delta < 0" is left out.
LabelError_NoNegativeTest(data) ==
    IF Has(data, "label") /\ ~ParseInt(Strip(data["label"], Q)).ok
    THEN "ValueError_label"
    ELSE "none"

\* unfolding_final.py: the exception the label of an edge raises, if any
LabelError(data) ==
    IF ~Has(data, "label") THEN "none"
    ELSE LET delta_str == Strip(data["label"], Q)
         IN  IF ~ParseInt(delta_str).ok THEN "ValueError_label"
             ELSE IF ParseInt(delta_str).val < 0 THEN "ValueError_negative"
             ELSE "none"

\* unfolding_final.py, one pass of the inner edge loop
AddEdgeLabel ==
    /\ pc = "edges"
    /\ variant = 0
    /\ cycle < K
    /\ idx <= Len(original.edges)
    /\ LET e    == original.edges[idx]
           data == e.data
       IN  IF LabelError(data) # "none"
           THEN Fail(LabelError(data)) /\ UNCHANGED <<unfolded, cycle, idx>>
           ELSE LET dst_cycle ==
                        IF Has(data, "label")
                        THEN DstCycle(cycle,
                                      ParseInt(Strip(data["label"], Q)).val, K)
                        ELSE cycle
                IN  /\ unfolded' = AddEdge(unfolded,
                                           Name(EdgeBase0(e.u), cycle),
                                           Name(EdgeBase0(e.v), dst_cycle),
                                           NewDataLabel(data))
                    /\ NextEdge
                    /\ UNCHANGED <<pc, err>>
    /\ UNCHANGED <<variant, k, env, outdir, outfile, original, constraint_edges>>

\* A mutant of Retain: the last cycle is taken to be k, not k - 1.
Retain_OffByOne(c, dst_cycle, kk) == c = kk /\ dst_cycle = 0

\* cycle == k - 1 and dst_cycle == 0
Retain(c, dst_cycle, kk) == c = kk - 1 /\ dst_cycle = 0

\* A mutant of FlagDelta: every edge is given delta 1.
FlagDelta_AlwaysOne(is_constraint) == 1

\* 1 if is_constraint else 0
FlagDelta(is_constraint) == IF is_constraint THEN 1 ELSE 0

\* str(label).replace('"', '') wrapped in one pair of double quotes
FormatLabel(data) ==
    IF Has(data, "label")
    THEN [data EXCEPT !["label"] = <<Q>> \o RemoveQuotes(@) \o <<Q>>]
    ELSE data

\* unfolding_final_1.py: data.copy(), stripped of constraint, color and
\* label on the instances of a constraint edge that are not retained.
NewDataFlag(data, is_constraint, c, dst_cycle, kk) ==
    FormatLabel(IF is_constraint /\ ~Retain(c, dst_cycle, kk)
                THEN Without(data, {"constraint", "color", "label"})
                ELSE data)

\* unfolding_final_1.py, one pass of the inner edge loop
AddEdgeFlag ==
    /\ pc = "edges"
    /\ variant = 1
    /\ cycle < K
    /\ idx <= Len(original.edges)
    /\ LET e             == original.edges[idx]
           is_constraint == <<e.u, e.v>> \in constraint_edges
           dst_cycle     == DstCycle(cycle, FlagDelta(is_constraint), K)
       IN  IF ~is_constraint /\ dst_cycle # cycle
           THEN Fail("AssertionError") /\ UNCHANGED <<unfolded, cycle, idx>>
           ELSE /\ unfolded' = AddEdge(unfolded,
                                       Name(extract_base(e.u), cycle),
                                       Name(extract_base(e.v), dst_cycle),
                                       NewDataFlag(e.data, is_constraint,
                                                   cycle, dst_cycle, K))
                /\ NextEdge
                /\ UNCHANGED <<pc, err>>
    /\ UNCHANGED <<variant, k, env, outdir, outfile, original, constraint_edges>>

\* return unfolded: both edge loops are exhausted
UnfoldReturn ==
    /\ pc = "edges"
    /\ cycle = K \/ Len(original.edges) = 0
    /\ pc' = "open"
    /\ UNCHANGED <<variant, k, env, outdir, outfile, err, original,
                   constraint_edges, unfolded, cycle, idx>>

----------------------------------------------------------------------------
\* process_unfolding

\* if not input_path.exists(): raise FileNotFoundError
CheckInput ==
    /\ pc = "start"
    /\ IF env = "missing"
       THEN Fail("FileNotFoundError")
       ELSE pc' = "mkdir" /\ err' = err
    /\ UNCHANGED <<variant, k, env, outdir, outfile, original,
                   constraint_edges, unfolded, cycle, idx>>

\* A mutant of MakeOutputDir: the output file is opened for writing as
\* soon as its path is known, before the graph is read and unfolded.
MakeOutputDir_OpensFile ==
    /\ pc = "mkdir"
    /\ outdir' = TRUE
    /\ outfile' = "open"
    /\ pc' = "read"
    /\ UNCHANGED <<variant, k, env, err, original,
                   constraint_edges, unfolded, cycle, idx>>

\* output_dir.mkdir(parents=True, exist_ok=True); output_path is computed
MakeOutputDir ==
    /\ pc = "mkdir"
    /\ outdir' = TRUE
    /\ pc' = "read"
    /\ UNCHANGED <<variant, k, env, outfile, err, original,
                   constraint_edges, unfolded, cycle, idx>>

\* original = nx.nx_pydot.read_dot(input_path)
ReadDot ==
    /\ pc = "read"
    /\ IF env = "malformed"
       THEN Fail("ParseError") /\ original' = original
       ELSE /\ original' \in Graphs
            /\ pc' = "unfold"
            /\ err' = err
    /\ UNCHANGED <<variant, k, env, outdir, outfile, constraint_edges,
                   unfolded, cycle, idx>>

\* with open(output_path, 'w'): the file is created or truncated and the
\* header line written
OpenOutput ==
    /\ pc = "open"
    /\ outfile' = "open"
    /\ pc' = IF variant = 1 THEN "write_nodes" ELSE "write_edges"
    /\ UNCHANGED <<variant, k, env, outdir, err, original,
                   constraint_edges, unfolded, cycle, idx>>

\* unfolding_final_1.py: a line per node of the unfolded graph
WriteNodes ==
    /\ pc = "write_nodes"
    /\ outfile' = "nodes"
    /\ pc' = "write_edges"
    /\ UNCHANGED <<variant, k, env, outdir, err, original,
                   constraint_edges, unfolded, cycle, idx>>

\* a line per edge of the unfolded graph, then the closing brace
WriteEdges ==
    /\ pc = "write_edges"
    /\ outfile' = "written"
    /\ pc' = "done"
    /\ UNCHANGED <<variant, k, env, outdir, err, original,
                   constraint_edges, unfolded, cycle, idx>>

Next ==
    \/ CheckInput
    \/ MakeOutputDir
    \/ ReadDot
    \/ UnfoldCheckK
    \/ DetectConstraintEdges
    \/ CreateNodes
    \/ AddEdgeLabel
    \/ AddEdgeFlag
    \/ UnfoldReturn
    \/ OpenOutput
    \/ WriteNodes
    \/ WriteEdges

Spec == Init /\ [][Next]_vars

----------------------------------------------------------------------------
\* Properties

\* unfold_graph has returned its graph to process_unfolding
Returned == pc \in {"open", "write_nodes", "write_edges", "done"}

\* unfold_graph was entered and has ended, by return or by exception
UnfoldEnded ==
    \/ Returned
    \/ pc = "failed" /\ err \notin {"FileNotFoundError", "ParseError"}

\* The edge loops have been entered (and possibly left or aborted).
EdgePhase ==
    \/ pc = "edges"
    \/ Returned
    \/ pc = "failed" /\ err \in {"ValueError_label", "ValueError_negative",
                                 "AssertionError"}

\* The instance of input edge i for source cycle c has been generated.
Generated(i, c) ==
    /\ EdgePhase
    /\ i \in 1..Len(original.edges)
    /\ c \in 0..(K - 1)
    /\ c < cycle \/ (c = cycle /\ i < idx)

Instances ==
    {ic \in (1..Len(original.edges)) \X (0..(K - 1)) : Generated(ic[1], ic[2])}

\* The integer an edge's label encodes, 0 without a label.
LabelDelta(data) ==
    IF Has(data, "label") THEN ParseInt(Strip(data["label"], Q)).val ELSE 0

Undecodable(data) ==
    Has(data, "label") /\ ~ParseInt(Strip(data["label"], Q)).ok

Negative(data) ==
    /\ Has(data, "label")
    /\ ParseInt(Strip(data["label"], Q)).ok
    /\ ParseInt(Strip(data["label"], Q)).val < 0

Pairs(g) == DOMAIN g.edges

Three == {"constraint", "color", "label"}

\* C1: under the explicit-label policy every generated instance of an input
\* edge (u, v) for source cycle c is the edge from base(u)_c to
\* base(v)_((c + d) mod k), d the integer its label encodes and 0 without a
\* label; the unfolded graph holds no other edge; with k = 1 every edge ends
\* in cycle 0.
C1_LabelEdgesWrapModK ==
    variant = 0 =>
        /\ \A ic \in Instances :
              LET e == original.edges[ic[1]]
              IN  <<Name(NodeBase0(e.u), ic[2]),
                    Name(NodeBase0(e.v), (ic[2] + LabelDelta(e.data)) % K)>>
                      \in Pairs(unfolded)
        /\ Pairs(unfolded) =
              {<<Name(NodeBase0(original.edges[ic[1]].u), ic[2]),
                 Name(NodeBase0(original.edges[ic[1]].v),
                      (ic[2] + LabelDelta(original.edges[ic[1]].data)) % K)>> :
                  ic \in Instances}
        /\ (EdgePhase /\ K = 1) =>
              \A p \in Pairs(unfolded) : \E b \in {NodeBase0(n) : n \in original.nodes} :
                  p[2] = b \o <<"_", "0">>

\* A finished explicit-label run with k = 2 over an edge labelled 3, whose
\* instances wrap around.
C1_Witness ==
    /\ variant = 0
    /\ pc = "done"
    /\ K = 2
    /\ \E i \in 1..Len(original.edges) : LabelDelta(original.edges[i].data) = 3

\* C2: in both variants, once the node loop has ended the node set of the
\* unfolded graph is exactly { base(n)_c : n an input node, 0 <= c < k }, the
\* edge loop adds no other node, and the node count is k times the number of
\* distinct base identities.
C2_NodeSetIsBaseTimesCycles ==
    EdgePhase =>
        /\ unfolded.nodes =
              {Name(NodeBase(n), c) : n \in original.nodes, c \in 0..(K - 1)}
        /\ Cardinality(unfolded.nodes) =
              K * Cardinality({NodeBase(n) : n \in original.nodes})

\* A finished run over a graph in which two nodes share a base identity, so
\* that there are fewer than k nodes per input node.
C2_Witness ==
    /\ variant = 0
    /\ pc = "done"
    /\ K = 2
    /\ {N_a0, N_a1} \subseteq original.nodes
    /\ Cardinality(unfolded.nodes) < K * Cardinality(original.nodes)

\* C3: a k that is not a positive integer makes unfold_graph fail with
\* ValueError('k must be a positive integer'), before any node or edge of
\* the output graph exists.
C3_InvalidKIsValueError ==
    (UnfoldEnded /\ ~ValidK(k)) =>
        /\ pc = "failed"
        /\ err = "ValueError_k"
        /\ unfolded = EmptyGraph

\* The input edges whose label is undecodable or negative.
BadEdges ==
    {i \in 1..Len(original.edges) :
        Undecodable(original.edges[i].data) \/ Negative(original.edges[i].data)}

FirstBad == CHOOSE i \in BadEdges : \A j \in BadEdges : i <= j

\* C4 as stated: a graph with an undecodable label fails with the
\* invalid-label error, a graph with a negative label with the
\* negative-delta error.
C4_EachBadLabelHasItsError ==
    (variant = 0 /\ ValidK(k) /\ UnfoldEnded) =>
        /\ (\E i \in 1..Len(original.edges) : Undecodable(original.edges[i].data))
              => (pc = "failed" /\ err = "ValueError_label")
        /\ (\E i \in 1..Len(original.edges) : Negative(original.edges[i].data))
              => (pc = "failed" /\ err = "ValueError_negative")

\* C4 (amended): under the explicit-label policy and a valid k, a graph with
\* an undecodable or negative label makes the call fail with the error of
\* the first such edge in edge order (invalid-label if its label does not
\* decode, negative-delta if it decodes below 0); no instance of such an
\* edge is ever generated and no graph is returned.
C4_FirstBadLabelFails ==
    (variant = 0 /\ ValidK(k) /\ BadEdges # {}) =>
        /\ UnfoldEnded =>
              /\ pc = "failed"
              /\ err = IF Undecodable(original.edges[FirstBad].data)
                       THEN "ValueError_label" ELSE "ValueError_negative"
        /\ \A ic \in Instances : ic[1] \notin BadEdges

\* With k = 1, a negative label ahead of an undecodable one ends the run
\* with the negative-delta error.
C4_Witness ==
    /\ variant = 0
    /\ K = 1
    /\ pc = "failed"
    /\ err = "ValueError_negative"
    /\ \E i \in 1..Len(original.edges) : Undecodable(original.edges[i].data)

\* C5: under the constraint-flag policy, of the instances of an edge with
\* constraint == 'false' only the one for source cycle k - 1, which ends in
\* cycle 0, carries the edge's constraint, color and label; on every other
\* instance all three are absent.
C5_AttributesOnlyOnWraparound ==
    variant = 1 =>
        \A ic \in Instances :
            LET e == original.edges[ic[1]]
                c == ic[2]
                p == <<Name(extract_base(e.u), c),
                       Name(extract_base(e.v), (c + 1) % K)>>
            IN  IsFalseConstraint(e.data) =>
                    /\ p \in Pairs(unfolded)
                    /\ IF c = K - 1
                       THEN /\ (c + 1) % K = 0
                            /\ Three \cap DOMAIN e.data
                                   \subseteq DOMAIN unfolded.edges[p]
                       ELSE Three \cap DOMAIN unfolded.edges[p] = {}

\* A finished constraint-flag run with k = 3 over a constraint edge that
\* has all three attributes.
C5_Witness ==
    /\ variant = 1
    /\ pc = "done"
    /\ K = 3
    /\ \E i \in 1..Len(original.edges) :
          /\ IsFalseConstraint(original.edges[i].data)
          /\ Three \subseteq DOMAIN original.edges[i].data

\* C6: under the constraint-flag policy the detected constraint edges are
\* exactly the edges with constraint == 'false'; an instance of such an edge
\* goes from base(u)_c to base(v)_((c + 1) mod k), an instance of any other
\* edge from base(u)_c to base(v)_c.
C6_FlagEdgesRewired ==
    variant = 1 =>
        \A ic \in Instances :
            LET e == original.edges[ic[1]]
                c == ic[2]
            IN  <<Name(extract_base(e.u), c),
                  Name(extract_base(e.v),
                       IF IsFalseConstraint(e.data) THEN (c + 1) % K ELSE c)>>
                    \in Pairs(unfolded)

\* The attribute map unfold_graph builds for input edge i in source cycle c.
OwnAttrs(i, c) ==
    LET e == original.edges[i]
    IN  IF variant = 0 THEN NewDataLabel(e.data)
        ELSE NewDataFlag(e.data, <<e.u, e.v>> \in constraint_edges, c,
                         DstCycle(c, FlagDelta(<<e.u, e.v>> \in constraint_edges), K),
                         K)

\* C7: the returned graph has k * |input edges| edges, and every edge of it
\* carries the attribute map built for one input edge and one source cycle.
C7_KEdgesPerInputEdge ==
    Returned =>
        /\ Cardinality(Pairs(unfolded)) = K * Len(original.edges)
        /\ \A p \in Pairs(unfolded) : \E ic \in Instances :
              unfolded.edges[p] = OwnAttrs(ic[1], ic[2])

\* C8: under the explicit-label policy every generated instance of an input
\* edge carries a copy of that edge's attribute map.
C8_InstancesCopyAttributes ==
    variant = 0 =>
        \A ic \in Instances :
            LET e == original.edges[ic[1]]
                p == <<Name(EdgeBase0(e.u), ic[2]),
                       Name(EdgeBase0(e.v), (ic[2] + LabelDelta(e.data)) % K)>>
            IN  p \in Pairs(unfolded) /\ unfolded.edges[p] = e.data

C10_NoOutputOnFailure ==
    /\ err # "none" => (pc = "failed" /\ outfile \in {"absent", "old"})
    /\ outfile \notin {"absent", "old"} =>
          /\ pc \in {"write_nodes", "write_edges", "done"}
          /\ err = "none"
          /\ ValidK(k)
          /\ cycle = K \/ Len(original.edges) = 0
          /\ unfolded.nodes =
                {Name(NodeBase(n), c) : n \in original.nodes, c \in 0..(K - 1)}
    /\ pc \in {"start", "mkdir", "read", "unfold", "detect", "nodes", "edges",
               "open", "failed"} => outfile \in {"absent", "old"}

\* A run that fails on a label after part of the graph was built, with an
\* output file of an earlier run in place.
C10_Witness ==
    /\ pc = "failed"
    /\ err = "ValueError_label"
    /\ outfile = "old"
    /\ Pairs(unfolded) # {}

====
